---- MODULE Spec2Model ----
(***************************************************************************)
(* RGGP: patch a ROM image with NES Game Genie codes (src/src/main.rs).    *)
(*                                                                         *)
(* Spec        one run of main: argument check, split of CODES, copy of    *)
(*             INPUT to OUTPUT, reopen of OUTPUT, mode dispatch and the     *)
(*             loop that decodes and writes one code per iteration.         *)
(* SpecDecode  parse_nes followed by write_at, applied twice to one code,   *)
(*             one base offset and one image, the inputs drawn from         *)
(*             bounded sets.                                                *)
(***************************************************************************)
EXTENDS Integers, Sequences, FiniteSets, TLC

VARIABLES
    args,           \* Args: [codes, mode, rom_in_is_file]
    rom_in,         \* the INPUT file: [len, seed]
    rom_out,        \* the OUTPUT file: [exists, len, olen, seed, w]
    codes,          \* the '+'-split list of codes
    idx,            \* position of the for loop in codes (1-based)
    global_offset,  \* the running base offset
    pc,             \* position of main
    exit_status,    \* {} while running, {status} once the process has ended
    io_failed,      \* history: the I/O operations that have failed
    log             \* history: one entry per loop iteration that produced a patch

vars == <<args, rom_in, rom_out, codes, idx, global_offset, pc, exit_status,
          io_failed, log>>

----------------------------------------------------------------------------
(* Program constants *)

NES_CONVERSION ==
    <<"A", "P", "Z", "L", "G", "I", "T", "Y", "E", "O", "X", "U", "K", "S", "V", "N">>

HEADER_SIZE == 16
BANK_SIZE == 32768
EXIT_INVALID_CODE == 32
EXIT_PANIC == 101
EXIT_SUCCESS == 0

NesModes == {"Nintendo", "NES"}
TodoModes == {"GameBoy", "GB", "GameGear", "GG", "MasterSystem", "SMS", "Genesis", "SG",
              "MegaDrive", "MD", "SuperNintendo", "SNES"}

----------------------------------------------------------------------------
(* Bounds and input sets *)

MaxCodes == 3
MaxChanged == 2

\* a character that is not in the alphabet and takes two bytes in UTF-8
MultiByteChar == "U+00E9"
\* the separator of CODES
Plus == "+"

\* input image sizes: 16-byte header + 16 KiB PRG + 8 KiB CHR, and + 32 KiB PRG
RomLens == {24592, 40976}
Seeds == {0, 165}
PartialLen == 4096

----------------------------------------------------------------------------
(* Files: positioned single-byte I/O on a sparse description of the content *)

\* byte of a ROM file with the given seed at offset off
Orig(seed, off) == (seed + off) % 256

NoWrites == {}

Absent == [exists |-> FALSE, len |-> 0, olen |-> 0, seed |-> 0, w |-> NoWrites]

\* the byte stored in file at off (off < file.len)
Content(file, off) ==
    IF \E p \in file.w : p.off = off
    THEN (CHOOSE p \in file.w : p.off = off).byte
    ELSE IF off < file.olen THEN Orig(file.seed, off)
    ELSE 0

\* FileExt::read_at into a 1-byte buffer initialised to 0: the number of
\* bytes read and the buffer afterwards
read_at(file, off) ==
    IF off < file.len
    THEN [n |-> 1, byte |-> Content(file, off)]
    ELSE [n |-> 0, byte |-> 0]

\* FileExt::write_at of one byte: a write at or past the end extends the file
write_at(file, off, byte) ==
    [file EXCEPT !.w = {p \in file.w : p.off # off} \cup {[off |-> off, byte |-> byte]},
                 !.len = IF off + 1 > file.len THEN off + 1 ELSE file.len]

\* std::fs::copy, by outcome
copy(src, outcome) ==
    CASE outcome = "ok" ->
            [exists |-> TRUE, len |-> src.len, olen |-> src.len,
             seed |-> src.seed, w |-> NoWrites]
      [] outcome = "partial" ->
            [exists |-> TRUE, len |-> PartialLen, olen |-> PartialLen,
             seed |-> src.seed, w |-> NoWrites]
      [] OTHER -> Absent

remove_file(file) == Absent

----------------------------------------------------------------------------
(* Strings *)

len_utf8(c) == IF c = MultiByteChar THEN 2 ELSE 1

\* mutant of len: the number of characters
len_chars(s) == Len(s)

RECURSIVE len(_)
\* str::len: the length in bytes
len(s) == IF s = <<>> THEN 0 ELSE len_utf8(Head(s)) + len(Tail(s))

RECURSIVE split_nonempty(_)
\* mutant of split: empty pieces are dropped
split_nonempty(s) ==
    IF \A k \in 1..Len(s) : s[k] # Plus
    THEN IF s = <<>> THEN <<>> ELSE <<s>>
    ELSE LET k == CHOOSE j \in 1..Len(s) :
                     s[j] = Plus /\ \A m \in 1..(j - 1) : s[m] # Plus
         IN (IF k = 1 THEN <<>> ELSE <<SubSeq(s, 1, k - 1)>>)
               \o split_nonempty(SubSeq(s, k + 1, Len(s)))

RECURSIVE split(_)
\* str::split('+'): n separators give n + 1 pieces, empty pieces included
split(s) ==
    IF \A k \in 1..Len(s) : s[k] # Plus
    THEN <<s>>
    ELSE LET k == CHOOSE j \in 1..Len(s) :
                     s[j] = Plus /\ \A m \in 1..(j - 1) : s[m] # Plus
         IN <<SubSeq(s, 1, k - 1)>> \o split(SubSeq(s, k + 1, Len(s)))

RECURSIVE join(_)
join(list) ==
    IF Len(list) = 1 THEN list[1]
    ELSE list[1] \o <<Plus>> \o join(Tail(list))

----------------------------------------------------------------------------
(* parse_nes *)

None == 16

\* NES_CONVERSION.iter().position(|&c| c == i)
position(c) ==
    IF \E k \in 1..16 : NES_CONVERSION[k] = c
    THEN (CHOOSE k \in 1..16 :
              NES_CONVERSION[k] = c /\ \A m \in 1..(k - 1) : NES_CONVERSION[m] # c) - 1
    ELSE None

\* code.chars().map(position).collect(), indexed from 0
data_hex(code) == [k \in 0..(Len(code) - 1) |-> position(code[k + 1])]

invalid_char(code) == \E k \in 1..Len(code) : position(code[k]) = None

\* x & 0b0111 and x & 0b1000 on a nibble
low3(x) == x % 8
high1(x) == ((x \div 8) % 2) * 8

\* u8 << 4: bits shifted out are dropped
shl4_u8(x) == (x * 16) % 256

\* mutant of res_data6: res_data[3] takes both parts from data_hex[4]
res_data6_same_nibble(d) ==
    [k \in 0..5 |->
        CASE k = 0 -> low3(d[3])
          [] k = 1 -> low3(d[5]) + high1(d[4])
          [] k = 2 -> low3(d[2]) + high1(d[1])
          [] k = 3 -> low3(d[4]) + high1(d[4])
          [] k = 4 -> low3(d[1]) + high1(d[0])
          [] k = 5 -> low3(d[0]) + high1(d[5])]

res_data6(d) ==
    [k \in 0..5 |->
        CASE k = 0 -> low3(d[3])
          [] k = 1 -> low3(d[5]) + high1(d[4])
          [] k = 2 -> low3(d[2]) + high1(d[1])
          [] k = 3 -> low3(d[4]) + high1(d[3])
          [] k = 4 -> low3(d[1]) + high1(d[0])
          [] k = 5 -> low3(d[0]) + high1(d[5])]

\* mutant of res_data8: res_data[0] keeps bit 3 of data_hex[3]
res_data8_unmasked(d) ==
    [k \in 0..7 |->
        CASE k = 0 -> d[3]
          [] k = 1 -> low3(d[5]) + high1(d[4])
          [] k = 2 -> low3(d[2]) + high1(d[1])
          [] k = 3 -> low3(d[4]) + high1(d[3])
          [] k = 4 -> low3(d[1]) + high1(d[0])
          [] k = 5 -> low3(d[0]) + high1(d[7])
          [] k = 6 -> low3(d[7]) + high1(d[6])
          [] k = 7 -> low3(d[6]) + high1(d[5])]

res_data8(d) ==
    [k \in 0..7 |->
        CASE k = 0 -> low3(d[3])
          [] k = 1 -> low3(d[5]) + high1(d[4])
          [] k = 2 -> low3(d[2]) + high1(d[1])
          [] k = 3 -> low3(d[4]) + high1(d[3])
          [] k = 4 -> low3(d[1]) + high1(d[0])
          [] k = 5 -> low3(d[0]) + high1(d[7])
          [] k = 6 -> low3(d[7]) + high1(d[6])
          [] k = 7 -> low3(d[6]) + high1(d[5])]

address(r) == r[0] * 4096 + r[1] * 256 + r[2] * 16 + r[3]

\* mutant of checked_value: a mismatch returns the compare byte
checked_value_compare(check_byte, r) ==
    IF check_byte # shl4_u8(r[6]) + r[7]
    THEN shl4_u8(r[6]) + r[7]
    ELSE shl4_u8(r[4]) + r[5]

\* what parse_nes returns for an 8-character code, from the byte buffer
\* after the read
checked_value(check_byte, r) ==
    IF check_byte # shl4_u8(r[6]) + r[7]
    THEN check_byte
    ELSE shl4_u8(r[4]) + r[5]

Outcome(kind, status, offset, data, n, live) ==
    [kind |-> kind, status |-> status, offset |-> offset, data |-> data,
     n |-> n, live |-> live]

\* parse_nes(code, file, base_offset); read_err: the positioned read fails.
\* kind "patch": returns (offset, data); n is the number of image reads
\* issued (-1: none) and live the byte buffer after the read.
\* kind "exit": the process ends with status.
parse_nes(code, file, base_offset, read_err) ==
    IF len(code) = 6 THEN
        IF invalid_char(code)
        THEN Outcome("exit", EXIT_INVALID_CODE, 0, 0, -1, 0)
        ELSE LET r == res_data6(data_hex(code))
             IN Outcome("patch", 0, address(r) + base_offset,
                        shl4_u8(r[4]) + r[5], -1, 0)
    ELSE IF len(code) = 8 THEN
        IF invalid_char(code)
        THEN Outcome("exit", EXIT_INVALID_CODE, 0, 0, -1, 0)
        ELSE LET r == res_data8(data_hex(code))
                 off == address(r) + base_offset
                 rd == read_at(file, off)
             IN IF read_err
                THEN Outcome("exit", EXIT_PANIC, off, 0, 0, 0)
                ELSE Outcome("patch", 0, off, checked_value(rd.byte, r), rd.n, rd.byte)
    ELSE Outcome("exit", EXIT_PANIC, 0, 0, -1, 0)

----------------------------------------------------------------------------
(* Inputs of a run *)

Str6(a, b, c, d, e, f) == <<a, b, c, d, e, f>>
Str8(a, b, c, d, e, f, g, h) == <<a, b, c, d, e, f, g, h>>

CodeSet ==
    { Str6("A", "A", "A", "A", "A", "A"),            \* address 0x0000, value 0x00
      Str6("P", "E", "Y", "N", "N", "Y"),            \* address 0x7FFF, value 0x01
      Str8("I", "A", "A", "E", "A", "E", "A", "P"),  \* address 8, value 5, compare 0x18
      Str8("I", "A", "A", "A", "A", "A", "A", "A"),  \* address 0, value 5, compare 0x00
      Str6("A", "A", "A", "A", "A", "B"),
      Str8("A", "B", "A", "A", "A", "A", "A", "A"),
      <<"A", "B">>,
      <<"A", "A", "A", "A", "A", "A", "A">>,
      <<>>,
      <<"A", "A", "A", "A", MultiByteChar>> }

\* the modes and input images of the runs
RunModes == {"NES", "GameBoy"}
RunRoms == [len : RomLens, seed : {0}]

CodeLists == UNION { [1..n -> CodeSet] : n \in 1..MaxCodes }

RomFiles == [len : RomLens, seed : Seeds]

Init ==
    /\ args \in [codes : {join(l) : l \in CodeLists},
                 mode : RunModes,
                 rom_in_is_file : BOOLEAN]
    /\ rom_in \in RunRoms
    /\ rom_out = Absent
    /\ codes = <<>>
    /\ idx = 1
    /\ global_offset = 0
    /\ pc = "start"
    /\ exit_status = {}
    /\ io_failed = {}
    /\ log = <<>>

----------------------------------------------------------------------------
(* main *)

Exit(status) ==
    /\ pc' = "done"
    /\ exit_status' = {status}

\* rom_in is not a file: report and return
NoInput ==
    /\ pc = "start"
    /\ ~args.rom_in_is_file
    /\ Exit(EXIT_SUCCESS)
    /\ UNCHANGED <<args, rom_in, rom_out, codes, idx, global_offset, io_failed, log>>

\* args.codes.split('+').collect()
SplitCodes ==
    /\ pc = "start"
    /\ args.rom_in_is_file
    /\ codes' = split(args.codes)
    /\ pc' = "copy"
    /\ UNCHANGED <<args, rom_in, rom_out, idx, global_offset, exit_status, io_failed, log>>

\* let _ = copy(&args.rom_in, &args.rom_out): the result is discarded
Copy ==
    /\ pc = "copy"
    /\ \E outcome \in {"ok", "partial", "failed"} :
          /\ rom_out' = copy(rom_in, outcome)
          /\ io_failed' = IF outcome = "ok" THEN io_failed ELSE io_failed \cup {"copy"}
    /\ pc' = "open"
    /\ UNCHANGED <<args, rom_in, codes, idx, global_offset, exit_status, log>>

\* File::options().write(true).read(true).open(&args.rom_out) succeeds
OpenOk ==
    /\ pc = "open"
    /\ rom_out.exists
    /\ pc' = "dispatch"
    /\ UNCHANGED <<args, rom_in, rom_out, codes, idx, global_offset, exit_status,
                   io_failed, log>>

\* the open fails: remove rom_out if it exists and return
OpenFails ==
    /\ pc = "open"
    /\ rom_out' = IF rom_out.exists THEN remove_file(rom_out) ELSE rom_out
    /\ io_failed' = io_failed \cup {"open"}
    /\ Exit(EXIT_SUCCESS)
    /\ UNCHANGED <<args, rom_in, codes, idx, global_offset, log>>

\* the arms of match args.mode that are todo!()
Unimplemented ==
    /\ pc = "dispatch"
    /\ args.mode \notin NesModes
    /\ Exit(EXIT_PANIC)
    /\ UNCHANGED <<args, rom_in, rom_out, codes, idx, global_offset, io_failed, log>>

\* Nintendo | NES: let mut global_offset = 0x10_u64
EnterNes ==
    /\ pc = "dispatch"
    /\ args.mode \in NesModes
    /\ global_offset' = HEADER_SIZE
    /\ idx' = 1
    /\ pc' = "loop"
    /\ UNCHANGED <<args, rom_in, rom_out, codes, exit_status, io_failed, log>>

\* mutant of next_offset: the offset advances by half a bank
next_offset_half(offset) == offset + (BANK_SIZE \div 2)

\* global_offset += 0x8000
next_offset(offset) == offset + BANK_SIZE

Entry(r, written) ==
    [i |-> idx, code |-> codes[idx], base |-> global_offset, r |-> r,
     pre |-> rom_out, written |-> written]

\* one iteration of the loop: parse_nes rejects the code and ends the process
DecodeFails ==
    /\ pc = "loop"
    /\ idx <= Len(codes)
    /\ \E r \in {parse_nes(codes[idx], rom_out, global_offset, FALSE)} :
          /\ r.kind = "exit"
          /\ Exit(r.status)
    /\ UNCHANGED <<args, rom_in, rom_out, codes, idx, global_offset, io_failed, log>>

\* one iteration of the loop: the read of an 8-character code fails, so that
\* expect panics inside parse_nes
ReadFails ==
    /\ pc = "loop"
    /\ idx <= Len(codes)
    /\ parse_nes(codes[idx], rom_out, global_offset, FALSE).n >= 0
    /\ \E r \in {parse_nes(codes[idx], rom_out, global_offset, TRUE)} :
          /\ r.kind = "exit"
          /\ Exit(r.status)
    /\ io_failed' = io_failed \cup {"read"}
    /\ UNCHANGED <<args, rom_in, rom_out, codes, idx, global_offset, log>>

\* one iteration of the loop: parse_nes returns, the offset advances and
\* write_at succeeds
ApplyCode ==
    /\ pc = "loop"
    /\ idx <= Len(codes)
    /\ \E r \in {parse_nes(codes[idx], rom_out, global_offset, FALSE)} :
          /\ r.kind = "patch"
          /\ global_offset' = next_offset(global_offset)
          /\ rom_out' = write_at(rom_out, r.offset, r.data)
          /\ log' = Append(log, Entry(r, TRUE))
    /\ idx' = idx + 1
    /\ UNCHANGED <<args, rom_in, codes, pc, exit_status, io_failed>>

\* one iteration of the loop: parse_nes returns, the offset advances and
\* write_at fails, so that expect panics
WriteFails ==
    /\ pc = "loop"
    /\ idx <= Len(codes)
    /\ \E r \in {parse_nes(codes[idx], rom_out, global_offset, FALSE)} :
          /\ r.kind = "patch"
          /\ global_offset' = next_offset(global_offset)
          /\ log' = Append(log, Entry(r, FALSE))
    /\ io_failed' = io_failed \cup {"write"}
    /\ Exit(EXIT_PANIC)
    /\ UNCHANGED <<args, rom_in, rom_out, codes, idx>>

\* the loop is exhausted: main returns
Finish ==
    /\ pc = "loop"
    /\ idx > Len(codes)
    /\ Exit(EXIT_SUCCESS)
    /\ UNCHANGED <<args, rom_in, rom_out, codes, idx, global_offset, io_failed, log>>

Next ==
    \/ NoInput
    \/ SplitCodes
    \/ Copy
    \/ OpenOk
    \/ OpenFails
    \/ Unimplemented
    \/ EnterNes
    \/ DecodeFails
    \/ ReadFails
    \/ ApplyCode
    \/ WriteFails
    \/ Finish

Spec == Init /\ [][Next]_vars

----------------------------------------------------------------------------
(* parse_nes and write_at on their own *)

NibVals == {1, 2, 4, 8, 15}
BaseSet == {0, 16, 65552}

\* the codes of length n with at most MaxChanged characters other than 'A'
CodesOfLen(n) ==
    UNION { { [k \in 1..n |-> IF k \in S THEN NES_CONVERSION[v[k] + 1] ELSE "A"] :
                v \in [S -> NibVals] } :
            S \in { T \in SUBSET (1..n) : Cardinality(T) <= MaxChanged } }

DecodeInit ==
    /\ \E code \in CodesOfLen(6) \cup CodesOfLen(8) :
          /\ args = [codes |-> code, mode |-> "NES", rom_in_is_file |-> TRUE]
          /\ codes = <<code>>
    /\ rom_in \in RomFiles
    /\ rom_out = copy(rom_in, "ok")
    /\ io_failed = {}
    /\ idx = 1
    /\ global_offset \in BaseSet
    /\ pc = "loop"
    /\ exit_status = {}
    /\ log = <<>>

\* parse_nes on the code with the same base offset, then write_at
Reapply ==
    /\ Len(log) < 2
    /\ \E r \in {parse_nes(codes[1], rom_out, global_offset, FALSE)} :
          /\ r.kind = "patch"
          /\ rom_out' = write_at(rom_out, r.offset, r.data)
          /\ log' = Append(log, Entry(r, TRUE))
    /\ UNCHANGED <<args, rom_in, codes, idx, global_offset, pc, exit_status, io_failed>>

DecodeNext == Reapply

SpecDecode == DecodeInit /\ [][DecodeNext]_vars

----------------------------------------------------------------------------
(* Section 4.1 of the specification, with bitwise operators *)

Alphabet ==
    {"A", "P", "Z", "L", "G", "I", "T", "Y", "E", "O", "X", "U", "K", "S", "V", "N"}

AlphabetIndex(c) == CHOOSE v \in 0..15 : NES_CONVERSION[v + 1] = c

RECURSIVE BitAnd(_, _)
BitAnd(x, y) ==
    IF x = 0 \/ y = 0 THEN 0
    ELSE (x % 2) * (y % 2) + 2 * BitAnd(x \div 2, y \div 2)

RECURSIVE BitOr(_, _)
BitOr(x, y) ==
    IF x = 0 THEN y
    ELSE IF y = 0 THEN x
    ELSE (IF (x % 2) + (y % 2) > 0 THEN 1 ELSE 0) + 2 * BitOr(x \div 2, y \div 2)

Shl(x, n) == x * (2 ^ n)

\* d0..d7 of a code, as a tuple (d[k + 1] is dk)
Nibbles(code) == [k \in 1..Len(code) |-> AlphabetIndex(code[k])]

\* r0..r5, as a tuple
Rearranged6(d) ==
    << BitAnd(d[4], 7),
       BitOr(BitAnd(d[6], 7), BitAnd(d[5], 8)),
       BitOr(BitAnd(d[3], 7), BitAnd(d[2], 8)),
       BitOr(BitAnd(d[5], 7), BitAnd(d[4], 8)),
       BitOr(BitAnd(d[2], 7), BitAnd(d[1], 8)),
       BitOr(BitAnd(d[1], 7), BitAnd(d[6], 8)) >>

\* r0..r7, as a tuple
Rearranged8(d) ==
    << BitAnd(d[4], 7),
       BitOr(BitAnd(d[6], 7), BitAnd(d[5], 8)),
       BitOr(BitAnd(d[3], 7), BitAnd(d[2], 8)),
       BitOr(BitAnd(d[5], 7), BitAnd(d[4], 8)),
       BitOr(BitAnd(d[2], 7), BitAnd(d[1], 8)),
       BitOr(BitAnd(d[1], 7), BitAnd(d[8], 8)),
       BitOr(BitAnd(d[8], 7), BitAnd(d[7], 8)),
       BitOr(BitAnd(d[7], 7), BitAnd(d[6], 8)) >>

Rearranged(code) ==
    IF Len(code) = 6 THEN Rearranged6(Nibbles(code)) ELSE Rearranged8(Nibbles(code))

SpecAddress(t) == BitOr(BitOr(BitOr(Shl(t[1], 12), Shl(t[2], 8)), Shl(t[3], 4)), t[4])
SpecValue(t) == BitOr(Shl(t[5], 4), t[6])
SpecCompare(t) == BitOr(Shl(t[7], 4), t[8])

\* the raw decoded address of each code of the log
RawAddresses == [k \in 1..Len(log) |-> SpecAddress(Rearranged(log[k].code))]

\* the length of a code in bytes: one per character, one more for a
\* two-byte character
ByteLength(code) == Len(code) + Cardinality({k \in 1..Len(code) : code[k] = MultiByteChar})

InAlphabet(code) == \A k \in 1..Len(code) : code[k] \in Alphabet

\* the base offset of the code at list position k (1-based)
BaseAt(k) == 16 + (k - 1) * 32768

\* main has entered the Nintendo | NES arm
LoopEntered == global_offset >= 16

\* the copy of INPUT to OUTPUT has been made and has succeeded
Copied == pc \notin {"start", "copy"} /\ "copy" \notin io_failed

\* the run has ended while processing the code at list position k
EndedAt(k) == pc = "done" /\ LoopEntered /\ idx = k /\ k <= Len(codes)

\* the byte stored in file at off, -1 if the file holds no byte there
Stored(file, off) == IF off < file.len THEN Content(file, off) ELSE -1

----------------------------------------------------------------------------
(* C1 *)

\* C1: for every 8-character code, base offset and image content parse_nes
\* returns (A + base_offset, V), with V the candidate value if the byte
\* stored in the image at A + base_offset equals the compare byte and that
\* stored byte otherwise, so that the write leaves the content unchanged.
C1_CheckedPatch ==
    \A k \in 1..Len(log) :
        LET e == log[k]
        IN Len(e.code) = 8 =>
              \A t \in {Rearranged(e.code)} :
                 LET off == SpecAddress(t) + e.base
                     live == Stored(e.pre, off)
                 IN /\ e.r.offset = off
                    /\ e.r.data = IF live = SpecCompare(t) THEN SpecValue(t) ELSE live

----------------------------------------------------------------------------
(* C2 *)

\* C2: the codes are applied in input order, the base offset is 0x10 for the
\* first code and grows by 0x8000 per code, the code at list position k is
\* written at rawAddress + 0x10 + (k - 1) * 0x8000, and equal raw addresses
\* at different positions give different file offsets.
C2_OffsetsByPosition ==
    /\ pc = "loop" => idx = Len(log) + 1 /\ global_offset = BaseAt(idx)
    /\ pc \notin {"start"} /\ args.rom_in_is_file => join(codes) = args.codes
    /\ \A k \in 1..Len(log) :
          LET e == log[k]
          IN /\ e.i = k
             /\ e.code = codes[k]
             /\ e.base = BaseAt(k)
             /\ e.r.offset = RawAddresses[k] + BaseAt(k)
             /\ e.written =>
                   [off |-> e.r.offset, byte |-> e.r.data] \in rom_out.w
             /\ k < Len(log) => e.written
    /\ \A j, k \in 1..Len(log) :
          j # k /\ RawAddresses[j] = RawAddresses[k] => log[j].r.offset # log[k].r.offset

C2_Witness ==
    /\ Len(log) = 3
    /\ log[1].code = log[3].code
    /\ log[3].written
    /\ log[3].r.offset = log[1].r.offset + 65536

----------------------------------------------------------------------------
(* C3 *)

\* C3 as stated: a code with a character outside the alphabet, whatever its
\* length, ends the run with exit status 32, and no byte is written for it
\* or for a later code.
C3_InvalidCharExits32 ==
    \A k \in 1..Len(codes) :
        ~InAlphabet(codes[k]) =>
            /\ \A j \in 1..Len(log) : log[j].i < k
            /\ EndedAt(k) => exit_status = {32}

\* C3 amended: a code of 6 or 8 bytes with a character outside the alphabet
\* ends the run with exit status 32; a code of any other length with such a
\* character ends it with the panic of the length check (status 101); in
\* both cases no byte is written for it or for a later code.
C3_InvalidCharFatal ==
    \A k \in 1..Len(codes) :
        ~InAlphabet(codes[k]) =>
            /\ \A j \in 1..Len(log) : log[j].i < k
            /\ idx <= k
            /\ EndedAt(k) =>
                  /\ ByteLength(codes[k]) \in {6, 8} => exit_status = {32}
                  /\ ByteLength(codes[k]) \notin {6, 8} => exit_status = {101}
                  /\ Len(log) = k - 1
                  /\ rom_out.w = {[off |-> log[j].r.offset, byte |-> log[j].r.data] :
                                    j \in 1..(k - 1)}

C3_Witness ==
    /\ EndedAt(3)
    /\ Len(codes[3]) = 8
    /\ ~InAlphabet(codes[3])
    /\ exit_status = {32}
    /\ Len(log) = 2

----------------------------------------------------------------------------
(* C4 *)

\* C4: on any I/O failure during the run (copy, reopen, positioned read or
\* write) the output file is removed, so that none is left when the run ends.
C4_OutputRemovedOnIoFailure ==
    pc = "done" /\ io_failed # {} => ~rom_out.exists

----------------------------------------------------------------------------
(* C5 *)

\* C5: a second application of an 8-character code at the same final offset
\* writes back the byte already stored there, whether the first application
\* matched or not.
C5_SecondApplicationNoOp ==
    Len(log) = 2 /\ Len(codes[1]) = 8 =>
        /\ log[2].base = log[1].base
        /\ log[2].r.offset = log[1].r.offset
        /\ log[2].r.offset < log[2].pre.len
        /\ log[2].r.data = Content(log[2].pre, log[2].r.offset)
        /\ rom_out = log[2].pre

C5_Witness ==
    /\ Len(log) = 2
    /\ Len(codes[1]) = 8
    /\ log[1].r.n = 1
    /\ log[1].r.live = SpecCompare(Rearranged(codes[1]))
    /\ log[1].r.data # log[1].r.live
    /\ log[2].r.data # SpecCompare(Rearranged(codes[1]))

----------------------------------------------------------------------------
(* C6 *)

\* C6: for every 6-character code and base offset parse_nes reads nothing
\* and returns (A + base_offset, V) with A and V as in section 4.1; the
\* result does not depend on the image, and AAAAAA gives (base_offset, 0).
C6_UncheckedDecode ==
    /\ Len(codes[1]) = 6 /\ InAlphabet(codes[1]) =>
          parse_nes(codes[1], rom_out, global_offset, FALSE).kind = "patch"
    /\ \A k \in 1..Len(log) :
          LET e == log[k]
          IN Len(e.code) = 6 =>
                \A t \in {Rearranged(e.code)} :
                   /\ e.r.n = -1
                   /\ e.r.offset = SpecAddress(t) + e.base
                   /\ e.r.data = SpecValue(t)
                   /\ e.r = log[1].r
                   /\ e.code = Str6("A", "A", "A", "A", "A", "A") =>
                         e.r.offset = e.base /\ e.r.data = 0

C6_Witness ==
    /\ Len(log) = 2
    /\ Len(codes[1]) = 6
    /\ log[2].base = 65552
    /\ log[2].r.offset > 65552 + 4096
    /\ log[2].r.data >= 128
    /\ log[2].pre # log[1].pre

----------------------------------------------------------------------------
(* C7 *)

\* C7: the image is never resized: after any sequence of applied codes the
\* length of the output image equals the length of the input image.
C7_NeverResized ==
    Copied /\ rom_out.exists => rom_out.len = rom_in.len

----------------------------------------------------------------------------
(* C8 *)

CountPlus(s) == Cardinality({k \in 1..Len(s) : s[k] = Plus})

\* C8: a code whose length is neither 6 nor 8 (the empty code of an empty
\* CODES or of a leading, trailing or doubled '+' included) is fatal: the
\* run ends at it, no patch is produced for it, and no byte is written for
\* it or for a later code.
C8_BadLengthFatal ==
    /\ pc # "start" /\ args.rom_in_is_file =>
          /\ Len(codes) = CountPlus(args.codes) + 1
          /\ join(codes) = args.codes
    /\ \A k \in 1..Len(codes) :
          Len(codes[k]) \notin {6, 8} \/ ByteLength(codes[k]) \notin {6, 8} =>
              /\ \A j \in 1..Len(log) : log[j].i < k
              /\ idx <= k
              /\ EndedAt(k) =>
                    /\ exit_status \in {{32}, {101}}
                    /\ ByteLength(codes[k]) \notin {6, 8} => exit_status = {101}
                    /\ Len(log) = k - 1
                    /\ rom_out.w = {[off |-> log[j].r.offset, byte |-> log[j].r.data] :
                                      j \in 1..(k - 1)}

C8_Witness ==
    /\ EndedAt(2)
    /\ codes[2] = <<>>
    /\ Len(codes) = 3
    /\ Len(log) = 1
    /\ exit_status = {101}

----------------------------------------------------------------------------
(* C9 *)

\* C9: the code at list position k reads and writes only within
\* [0x10 + (k - 1) * 0x8000, 0x10 + (k - 1) * 0x8000 + 0x7FFF], no two codes
\* of a run touch the same offset, and the byte the compare check of an
\* 8-character code reads is the byte of the unpatched input image, never one
\* written by an earlier code.
C9_DisjointBanks ==
    \A k \in 1..Len(log) :
        LET e == log[k]
        IN /\ e.r.offset >= BaseAt(k)
           /\ e.r.offset <= BaseAt(k) + 32767
           /\ \A j \in 1..(k - 1) : log[j].r.offset < BaseAt(k)
           /\ \A p \in e.pre.w : p.off < BaseAt(k)
           /\ e.r.n = 1 =>
                 /\ e.r.offset < rom_in.len
                 /\ e.r.live = Orig(rom_in.seed, e.r.offset)
           /\ e.r.n = 0 => e.r.offset >= e.pre.olen

C9_Witness ==
    /\ Len(log) = 2
    /\ log[1].written
    /\ log[1].r.data # Orig(rom_in.seed, log[1].r.offset)
    /\ log[2].r.n = 1
    /\ log[2].r.live = SpecCompare(Rearranged(log[2].code))
    /\ log[2].written

----------------------------------------------------------------------------
(* C10 *)

FinalOffsets == {log[k].r.offset : k \in 1..Len(log)}

\* the offsets at which the frame is probed: the ends of the input and of
\* the output image, and the written offsets with their neighbours
ProbeOffsets ==
    LET marks == {0, rom_in.len, rom_out.len} \cup {p.off : p \in rom_out.w}
    IN {m + d : m \in marks, d \in {-1, 0, 1}}

\* C10: each decoded code causes one single-byte write at its final offset
\* and nothing else changes: every byte of the image at another offset
\* equals the corresponding byte of the input image.
C10_Frame ==
    Copied /\ rom_out.exists =>
        /\ \A k \in 1..Len(log) :
              log[k].written =>
                  [off |-> log[k].r.offset, byte |-> log[k].r.data] \in rom_out.w
        /\ \A off \in ProbeOffsets :
              off >= 0 /\ off < rom_out.len /\ off \notin FinalOffsets =>
                  /\ off < rom_in.len
                  /\ Content(rom_out, off) = Orig(rom_in.seed, off)

====
